---- MODULE Spec2Model ----
(***************************************************************************)
(* State-machine model of the two native inference plugins of the          *)
(* repository:                                                             *)
(*   CV    : src/UnityONNXInferenceCVPlugin/dllmain.cpp                    *)
(*   YOLOX : src/UnityOnnxYOLOXDetectorPlugin/UnityOnnxYOLOXDetectorPlugin *)
(*           /dllmain.cpp                                                  *)
(* Both are DLLs with the same process-wide globals and the same exported  *)
(* functions.  A behaviour of the model is the life of one process that    *)
(* has loaded one of the two DLLs (variable plugin) and whose host calls   *)
(* the exported functions one after the other.  The inference engine is an *)
(* opaque collaborator: the handles it hands out, what it has released and *)
(* what a run returns are tracked in the engine-side variables.            *)
(***************************************************************************)
EXTENDS Integers, Sequences, FiniteSets

(***************************************************************************)
(* Bounds of the model.                                                    *)
(***************************************************************************)
MaxLoads == 2      \* LoadModel calls that get as far as creating an environment
MaxDim == 2        \* largest image width / height the host passes
MaxOut == 2        \* capacity of the host's output array, in floats

(***************************************************************************)
(* Program constants.                                                      *)
(***************************************************************************)
n_channels == 3
SizeofFloat == 4
SizeofFloatPtr == 8
ByteMax == 255

NULL == 0

(***************************************************************************)
(* Strings are sequences of characters, so that std::string::find is a     *)
(* real substring search.                                                  *)
(***************************************************************************)
S_CPU == <<"C", "P", "U">>
S_Dml == <<"D", "m", "l">>
S_ExecutionProvider ==
    <<"E", "x", "e", "c", "u", "t", "i", "o", "n",
      "P", "r", "o", "v", "i", "d", "e", "r">>
S_CPU_EP == S_CPU \o S_ExecutionProvider
S_Dml_EP == S_Dml \o S_ExecutionProvider
S_CUDA_EP == <<"C", "U", "D", "A">> \o S_ExecutionProvider
S_CPU_Dml == S_CPU \o <<",">> \o S_Dml
S_Empty == <<>>

\* The execution_provider strings the host passes to LoadModel.
Selectors == {S_CPU, S_Dml_EP, S_CPU_Dml, S_CUDA_EP, S_Empty}

\* What GetAvailableProviders reports on a DirectML build of the engine, and
\* what it reports on other builds.  MaxProviders is the longest such list.
MaxProviders == 2
AvailableProviders == <<S_Dml_EP, S_CPU_EP>>
ProviderLists ==
    {<<>>, <<S_CPU_EP>>, <<S_Dml_EP, S_CPU_EP>>, <<S_CUDA_EP, S_CPU_EP>>}

\* s.find(key) != std::string::npos
Find(s, key) ==
    \E i \in 0..(Len(s) - Len(key)) :
        \A j \in 1..Len(key) : s[i + j] = key[j]

(***************************************************************************)
(* Return values of LoadModel.                                             *)
(***************************************************************************)
MsgSuccess == "Model loaded successfully."
MsgUnknownProvider == "Unknown execution provider specified."
MsgUnknownError == "An unknown error occurred while loading the model."
MsgException == "e.what()"
\* Other results: no value, a null pointer, a string of the provider list (field
\* name of the call record), an int (field num), a pointer to something else.
NoRet == "void"
RetNull == "nullptr"
RetName == "name"
RetInt == "int"
Garbage == "garbage"

(***************************************************************************)
(* Floats.  A normalised pixel is the quotient byte / 255.0f, kept as the  *)
(* pair <<numerator, denominator>>; 0.0f is <<0, 1>>.                      *)
(***************************************************************************)
Zero == <<0, 1>>
Normalize(b) == <<b, ByteMax>>

(***************************************************************************)
(* Host inputs.                                                            *)
(***************************************************************************)
\* The image_dims the host passes: every size up to MaxDim x MaxDim, and one
\* pair with a width that is no size.
DimPairs == {<<-1, 1>>} \cup ((1..MaxDim) \X (1..MaxDim))
Seeds == {0, 1}
\* A synthetic frame of n bytes whose bytes are pairwise different.
Image(seed, n) == [i \in 1..n |-> (seed * 101 + 17 * i) % (ByteMax + 1)]
\* The data of the output tensor of a run.
EngineOutput == [i \in 1..MaxOut |-> <<i, 1>>]

VARIABLES
    plugin,           \* which DLL the process has loaded: "CV" or "YOLOX"
    crashed,          \* the process died (access violation, heap corruption)
    ort,              \* const OrtApi* ort: TRUE once InitOrtAPI has set it
    provider_names,   \* CV: std::vector<std::string>; YOLOX: char** (<<>> while NULL)
    provider_count,   \* YOLOX: int provider_count
    map_order,        \* CV: iteration order of execution_provider_actions
    env,              \* OrtEnv* env (NULL or a handle)
    session_options,  \* OrtSessionOptions* session_options
    session,          \* OrtSession* session
    input_w,
    input_h,
    n_pixels,
    input_data,       \* CV: std::vector<float>; YOLOX: the block input_data points to
    input_mem,        \* YOLOX: "null", "live" or "freed" for the block of input_data
    input_size,       \* YOLOX: int input_size
    output_array,     \* the host's output array
    n_loads,          \* engine: environments created so far (handles are 1..n_loads)
    sess_created,     \* engine: sessions created; session k belongs to environment k
    sess_cfg,         \* engine: <<k, flag>> when session k was created with flag set
    rel_envs,         \* engine: environments released
    rel_sess,         \* engine: sessions released
    rel_opts,         \* engine: session-options objects released
    dbl_rel,          \* engine: handles released more than once, as <<kind, id>>
    dims_accepted,    \* input_w, input_h were stored by a LoadModel that succeeded
    last,             \* the last exported call: its arguments, result and effects
    cfg_hist,         \* history: <<selector, flags applied>> of the recorded loads
    host_serial,      \* the host makes one call at a time
    call_pc,          \* per host thread: where its call in flight stands
    inflight          \* per host thread: the accesses its call is making

vars ==
    <<plugin, crashed, ort, provider_names, provider_count, map_order, env,
      session_options, session, input_w, input_h, n_pixels, input_data,
      input_mem, input_size, output_array, n_loads, sess_created, sess_cfg,
      rel_envs, rel_sess, rel_opts, dbl_rel, dims_accepted, last,
      cfg_hist, host_serial, call_pc, inflight>>

\* Everything but crashed and last.
prog_vars ==
    <<plugin, ort, provider_names, provider_count, map_order, env,
      session_options, session, input_w, input_h, n_pixels, input_data,
      input_mem, input_size, output_array, n_loads, sess_created, sess_cfg,
      rel_envs, rel_sess, rel_opts, dbl_rel, dims_accepted>>

(***************************************************************************)
(* Engine-side views.                                                      *)
(***************************************************************************)
LiveEnvs == (1..n_loads) \ rel_envs
LiveSessions == sess_created \ rel_sess
LiveOpts == (1..n_loads) \ rel_opts
CfgOf(k) == {f \in {"DisableMemPattern", "Sequential", "DML0"} : <<k, f>> \in sess_cfg}

\* The host's threads.
Threads == {"A", "B"}

NoCall ==
    [op |-> "none", sel |-> S_Empty, index |-> 0,
     model_ok |-> FALSE, ret |-> NoRet, name |-> S_Empty, num |-> 0,
     cs_called |-> FALSE,
     created |-> NULL, applied |-> {}, present |-> FALSE, oob |-> FALSE,
     written |-> {}, seed |-> 0, released |-> <<>>,
     tmp_created |-> <<>>, tmp_released |-> <<>>, actions |-> <<>>]

(***************************************************************************)
(* Globals of static storage are zero-initialised; the CV plugin's vectors *)
(* and strings start empty.  The iteration order of the unordered_map of   *)
(* LoadModel is fixed by the build (hash function and bucket count) and is *)
(* the same on every call.                                                 *)
(***************************************************************************)
StartUp ==
    /\ plugin \in {"CV", "YOLOX"}
    /\ crashed = FALSE
    /\ ort = FALSE
    /\ provider_names = <<>>
    /\ provider_count = 0
    /\ map_order \in IF plugin = "CV"
                       THEN {<<S_CPU, S_Dml>>, <<S_Dml, S_CPU>>}
                       ELSE {<<>>}
    /\ env = NULL
    /\ session_options = NULL
    /\ session = NULL
    /\ input_w = 0
    /\ input_h = 0
    /\ n_pixels = 0
    /\ input_data = <<>>
    /\ input_mem = IF plugin = "CV" THEN "live" ELSE "null"
    /\ input_size = 0
    /\ output_array = [i \in 1..MaxOut |-> Zero]
    /\ n_loads = 0
    /\ sess_created = {}
    /\ sess_cfg = {}
    /\ rel_envs = {}
    /\ rel_sess = {}
    /\ rel_opts = {}
    /\ dbl_rel = {}
    /\ dims_accepted = FALSE
    /\ last = NoCall
    /\ cfg_hist = <<>>
    /\ call_pc = [t \in Threads |-> "idle"]
    /\ inflight = [t \in Threads |-> {}]

\* A host that calls the exported functions one at a time.
Init == StartUp /\ host_serial = TRUE

\* The history and the threads, which the calls made one at a time leave alone.
Aside == UNCHANGED <<cfg_hist, host_serial, call_pc, inflight>>

(***************************************************************************)
(* InitOrtAPI.  Fetches the API table and the provider list; avail is what *)
(* GetAvailableProviders reports.                                          *)
(***************************************************************************)
CV_InitOrtAPI(Lists) ==
    /\ plugin = "CV"
    /\ ~crashed
    /\ \E avail \in Lists :
          /\ ort' = TRUE
          /\ provider_names' = avail
    /\ last' = [NoCall EXCEPT !.op = "InitOrtAPI"]
    /\ UNCHANGED <<plugin, crashed, provider_count, map_order, env,
                   session_options, session, input_w, input_h, n_pixels,
                   input_data, input_mem, input_size, output_array, n_loads,
                   sess_created, sess_cfg, rel_envs, rel_sess, rel_opts, dbl_rel,
                   dims_accepted>>

Y_InitOrtAPI(Lists) ==
    /\ plugin = "YOLOX"
    /\ ~crashed
    /\ \E avail \in Lists :
          /\ ort' = TRUE
          /\ provider_names' = avail
          /\ provider_count' = Len(avail)
    /\ last' = [NoCall EXCEPT !.op = "InitOrtAPI"]
    /\ UNCHANGED <<plugin, crashed, map_order, env,
                   session_options, session, input_w, input_h, n_pixels,
                   input_data, input_mem, input_size, output_array, n_loads,
                   sess_created, sess_cfg, rel_envs, rel_sess, rel_opts, dbl_rel,
                   dims_accepted>>

(***************************************************************************)
(* GetProviderCount.                                                       *)
(***************************************************************************)
CV_ProviderCount(names) == Len(names)

CV_GetProviderCount ==
    /\ plugin = "CV"
    /\ ~crashed
    /\ last' = [NoCall EXCEPT !.op = "GetProviderCount", !.ret = RetInt,
                               !.num = CV_ProviderCount(provider_names)]
    /\ UNCHANGED <<crashed, prog_vars>>

Y_GetProviderCount ==
    /\ plugin = "YOLOX"
    /\ ~crashed
    /\ last' = [NoCall EXCEPT !.op = "GetProviderCount", !.ret = RetInt,
                               !.num = provider_count]
    /\ UNCHANGED <<crashed, prog_vars>>

(***************************************************************************)
(* GetProviderName.  The result is the set of outcomes of the call: the    *)
(* value returned, whether an element outside the list was read, and       *)
(* whether the process died.                                               *)
(***************************************************************************)
IndexRange == (-1)..(MaxProviders + 1)

\* CV: guarded by index >= 0 && index < provider_names.size().
CV_ProviderName(names, index) ==
    IF index >= 0 /\ index < Len(names)
    THEN {[ret |-> RetName, name |-> names[index + 1], oob |-> FALSE,
           crash |-> FALSE]}
    ELSE {[ret |-> RetNull, name |-> S_Empty, oob |-> FALSE, crash |-> FALSE]}

\* YOLOX: return provider_names[index], unguarded.  Outside the list (or with
\* provider_names still NULL) the read is undefined: it yields whatever lies
\* there, or faults.
Y_ProviderName(names, count, index) ==
    IF index >= 0 /\ index < count
    THEN {[ret |-> RetName, name |-> names[index + 1], oob |-> FALSE,
           crash |-> FALSE]}
    ELSE {[ret |-> Garbage, name |-> S_Empty, oob |-> TRUE, crash |-> FALSE],
          [ret |-> NoRet, name |-> S_Empty, oob |-> TRUE, crash |-> TRUE]}

CV_GetProviderName ==
    /\ plugin = "CV"
    /\ ~crashed
    /\ \E index \in IndexRange :
       \E o \in CV_ProviderName(provider_names, index) :
          /\ last' = [NoCall EXCEPT !.op = "GetProviderName", !.index = index,
                                     !.ret = o.ret, !.name = o.name,
                                     !.oob = o.oob]
          /\ crashed' = o.crash
    /\ UNCHANGED prog_vars

Y_GetProviderName ==
    /\ plugin = "YOLOX"
    /\ ~crashed
    /\ \E index \in IndexRange :
       \E o \in Y_ProviderName(provider_names, provider_count, index) :
          /\ last' = [NoCall EXCEPT !.op = "GetProviderName", !.index = index,
                                     !.ret = o.ret, !.name = o.name,
                                     !.oob = o.oob]
          /\ crashed' = o.crash
    /\ UNCHANGED prog_vars

(***************************************************************************)
(* LoadModel of the CV plugin.                                             *)
(***************************************************************************)
\* The "Dml" entry without its DisableMemPattern call.
DmlAction_NoMemPattern == {"Sequential", "DML0"}

\* What the "Dml" entry of execution_provider_actions does to session_options.
DmlAction == {"DisableMemPattern", "Sequential", "DML0"}
\* What the "CPU" entry does: nothing.
CpuAction == {}

\* The loop over execution_provider_actions: the first key, in the map's
\* iteration order, that occurs in provider_name; <<>> when there is none.
CV_Resolve(order, provider_name) ==
    LET hits == {i \in 1..Len(order) : Find(provider_name, order[i])}
    IN  IF hits = {}
        THEN <<>>
        ELSE order[CHOOSE i \in hits : \A j \in hits : i <= j]

CV_ActionOf(key) == IF key = S_Dml THEN DmlAction ELSE CpuAction

\* The loop without its break: the action of every key that occurs in
\* provider_name runs.
CV_ActionsRun_NoBreak(order, provider_name) ==
    SelectSeq(order, LAMBDA k : Find(provider_name, k))

\* The keys whose action the loop runs, in order: the loop breaks after the
\* first match (lines 119-124).
CV_ActionsRun(order, provider_name) ==
    LET key == CV_Resolve(order, provider_name)
    IN  IF key = <<>> THEN <<>> ELSE <<key>>

\* input_data.resize(n): the first elements are kept, new ones are 0.0f.
Resize(v, n) == [i \in 1..n |-> IF i <= Len(v) THEN v[i] ELSE Zero]

\* The outcomes of a use of pointer p by the engine: a live object is used; a
\* null or dangling pointer is undefined behaviour, which faults ("crash"), is
\* turned into the catch (...) of LoadModel by a build with asynchronous
\* exception handling ("caught"), or, for a dangling pointer whose memory is
\* still intact, goes on as if the object were live ("proceed").
UseOutcomes(p, live) ==
    IF p \in live THEN {"proceed"}
    ELSE IF p = NULL THEN {"crash", "caught"}
    ELSE {"crash", "caught", "proceed"}

\* One call LoadModel(model_path, execution_provider, image_dims) from the
\* state st (a record of the globals and the engine's objects).
\*   model_ok : the engine accepts the model at model_path
\*   keep     : on a rejected model the engine leaves *out (session) as it was
\*              instead of clearing it
\*   ub       : the outcome taken where the call runs into undefined behaviour
CV_LoadModelStep(st, sel, w, h, model_ok, keep, ub) ==
    LET k == st.n_loads + 1
        key == CV_Resolve(st.map_order, sel)
        run == CV_ActionsRun(st.map_order, sel)
        applied == UNION {CV_ActionOf(run[i]) : i \in 1..Len(run)}
        \* lines 95-101: CreateEnv, CreateSessionOptions
        st1 == [st EXCEPT !.n_loads = k, !.env = k, !.session_options = k]
        \* lines 134-135: CreateSession (its status is dropped), ReleaseSessionOptions
        sess1 == IF model_ok THEN k ELSE IF keep THEN st.session ELSE NULL
        st2 == [st1 EXCEPT
                  !.session = sess1,
                  !.sess_created = IF model_ok THEN @ \cup {k} ELSE @,
                  !.sess_cfg = IF model_ok
                               THEN @ \cup {<<k, f>> : f \in applied}
                               ELSE @,
                  !.rel_opts = @ \cup {k}]
        live2 == st2.sess_created \ st2.rel_sess
        \* lines 149-152
        size == (w * h) * n_channels
        st3 == [st2 EXCEPT !.input_w = w, !.input_h = h, !.n_pixels = w * h]
        st4 == [st3 EXCEPT !.input_data = Resize(@, size)]
        call0 == [NoCall EXCEPT !.op = "LoadModel", !.sel = sel,
                                !.model_ok = model_ok]
        call == [call0 EXCEPT !.actions = run]
    IN
    IF ~st.ort
    THEN \* ort->CreateEnv through a null ort
         IF ub = "crash"
         THEN [st |-> st, crashed |-> TRUE, call |-> call0]
         ELSE [st |-> st, crashed |-> FALSE,
               call |-> [call0 EXCEPT !.ret = MsgUnknownError]]
    ELSE IF key = <<>>
    THEN \* lines 129-131
         [st |-> st1, crashed |-> FALSE,
          call |-> [call EXCEPT !.ret = MsgUnknownProvider]]
    ELSE LET call2 == [call EXCEPT !.cs_called = TRUE, !.applied = applied,
                                   !.created = IF model_ok THEN k ELSE NULL]
             eff == IF ub \in UseOutcomes(sess1, live2) THEN ub ELSE "crash"
         IN
         \* lines 141-146: SessionGetInputName / SessionGetOutputName on session
         IF eff = "crash"
         THEN [st |-> st2, crashed |-> TRUE, call |-> call2]
         ELSE IF eff = "caught"
         THEN [st |-> st2, crashed |-> FALSE,
               call |-> [call2 EXCEPT !.ret = MsgUnknownError]]
         ELSE IF size < 0
         THEN \* resize((size_t) size) throws std::length_error, caught at line 156
              [st |-> st3, crashed |-> FALSE,
               call |-> [call2 EXCEPT !.ret = MsgException]]
         ELSE [st |-> st4, crashed |-> FALSE,
               call |-> [call2 EXCEPT !.ret = MsgSuccess]]

\* The globals and the engine's objects as one record, and back.
State ==
    [ort |-> ort, map_order |-> map_order, env |-> env,
     session_options |-> session_options, session |-> session,
     input_w |-> input_w, input_h |-> input_h, n_pixels |-> n_pixels,
     input_data |-> input_data, input_mem |-> input_mem,
     input_size |-> input_size, output_array |-> output_array,
     n_loads |-> n_loads, sess_created |-> sess_created,
     sess_cfg |-> sess_cfg, rel_envs |-> rel_envs, rel_sess |-> rel_sess,
     rel_opts |-> rel_opts, dbl_rel |-> dbl_rel]

Install(st) ==
    /\ env' = st.env
    /\ session_options' = st.session_options
    /\ session' = st.session
    /\ input_w' = st.input_w
    /\ input_h' = st.input_h
    /\ n_pixels' = st.n_pixels
    /\ input_data' = st.input_data
    /\ input_mem' = st.input_mem
    /\ input_size' = st.input_size
    /\ output_array' = st.output_array
    /\ n_loads' = st.n_loads
    /\ sess_created' = st.sess_created
    /\ sess_cfg' = st.sess_cfg
    /\ rel_envs' = st.rel_envs
    /\ rel_sess' = st.rel_sess
    /\ rel_opts' = st.rel_opts
    /\ dbl_rel' = st.dbl_rel
    /\ UNCHANGED <<plugin, ort, provider_names, provider_count, map_order>>

UBChoices == {"crash", "caught", "proceed"}

CV_LoadModel(Sels, DimSet, Oks) ==
    /\ plugin = "CV"
    /\ ~crashed
    /\ n_loads < MaxLoads
    /\ \E sel \in Sels, d \in DimSet, model_ok \in Oks :
       \E keep \in (IF model_ok THEN {FALSE} ELSE BOOLEAN), ub \in UBChoices :
       \E r \in {CV_LoadModelStep(State, sel, d[1], d[2], model_ok, keep, ub)} :
              /\ Install(r.st)
              /\ crashed' = r.crashed
              /\ last' = r.call
              /\ dims_accepted' =
                    IF r.call.ret = MsgSuccess THEN TRUE
                    ELSE IF <<r.st.input_w, r.st.input_h>> = <<input_w, input_h>>
                         THEN dims_accepted
                         ELSE FALSE

\* LoadModel with each call that got as far as the loop over the backends
\* entered in the history.
CV_LoadModelRecorded(Sels, DimSet, Oks) ==
    /\ CV_LoadModel(Sels, DimSet, Oks)
    /\ cfg_hist' = IF ort
                   THEN Append(cfg_hist, <<last'.sel, last'.applied>>)
                   ELSE cfg_hist

(***************************************************************************)
(* FreeResources of the CV plugin.                                         *)
(***************************************************************************)
\* ort->ReleaseX(p) on the engine's set of released handles of that kind.
\* Releasing a handle a second time is undefined: it faults or goes through.
ReleaseOutcomes(p, released) ==
    IF p \in released THEN {"crash", "proceed"} ELSE {"proceed"}

CV_FreeResourcesStep(st, ub_s, ub_e) ==
    LET rs == st.session # NULL            \* if (session)
        re == st.env # NULL                \* if (env)
        eff_s == IF ~rs \/ ub_s \in ReleaseOutcomes(st.session, st.rel_sess)
                 THEN ub_s ELSE "proceed"
        st1 == IF rs
               THEN [st EXCEPT
                       !.rel_sess = @ \cup {st.session},
                       !.dbl_rel = IF st.session \in st.rel_sess
                                   THEN @ \cup {<<"session", st.session>>}
                                   ELSE @]
               ELSE st
        rel1 == IF rs THEN <<(<<"session", st.session>>)>> ELSE <<>>
        eff_e == IF ~re \/ ub_e \in ReleaseOutcomes(st.env, st1.rel_envs)
                 THEN ub_e ELSE "proceed"
        st2 == IF re
               THEN [st1 EXCEPT
                       !.rel_envs = @ \cup {st.env},
                       !.dbl_rel = IF st.env \in st1.rel_envs
                                   THEN @ \cup {<<"env", st.env>>}
                                   ELSE @]
               ELSE st1
        rel2 == IF re THEN Append(rel1, <<"env", st.env>>) ELSE rel1
        call == [NoCall EXCEPT !.op = "FreeResources"]
    IN
    IF rs /\ eff_s = "crash"
    THEN [st |-> st, crashed |-> TRUE, call |-> call]
    ELSE IF re /\ eff_e = "crash"
    THEN [st |-> st1, crashed |-> TRUE, call |-> [call EXCEPT !.released = rel1]]
    ELSE [st |-> st2, crashed |-> FALSE, call |-> [call EXCEPT !.released = rel2]]

CV_FreeResources ==
    /\ plugin = "CV"
    /\ ~crashed
    /\ \E ub_s \in ReleaseOutcomes(session, rel_sess),
          ub_e \in ReleaseOutcomes(env, rel_envs) :
       \E r \in {CV_FreeResourcesStep(State, ub_s, ub_e)} :
              /\ Install(r.st)
              /\ crashed' = r.crashed
              /\ last' = r.call
    /\ UNCHANGED dims_accepted

(***************************************************************************)
(* PerformInference of the CV plugin.                                      *)
(***************************************************************************)
\* The pairs <<p, ch>> the preprocessing loop visits, and the order it visits
\* them in.
LoopPairs(np) == {<<p, ch>> : p \in 0..(np - 1), ch \in 0..(n_channels - 1)}
Later(a, b) == a[1] > b[1] \/ (a[1] = b[1] /\ a[2] >= b[2])

\* Destination and source offsets of one assignment of the loop:
\*   input_data[ch * n_pixels + p] = image_data[p * n_channels + ch] / 255.0f
\* The destination with the channels left interleaved.
CV_Dst_Interleaved(np, p, ch) == p * n_channels + ch

CV_Dst(np, p, ch) == ch * np + p
CV_Src(p, ch) == p * n_channels + ch

\* The offsets of input_data the loop assigns.
CV_Written(np) == {CV_Dst(np, pc[1], pc[2]) : pc \in LoopPairs(np)}

\* input_data after the loop (offset i is element i + 1 of the sequence); an
\* offset assigned more than once keeps the last value assigned.
CV_Preprocess(buf, image, np) ==
    [i \in 1..Len(buf) |->
        LET ws == {pc \in LoopPairs(np) : CV_Dst(np, pc[1], pc[2]) = i - 1}
        IN  IF ws = {}
            THEN buf[i]
            ELSE LET w == CHOOSE a \in ws : \A b \in ws : Later(a, b)
                 IN  Normalize(image[CV_Src(w[1], w[2]) + 1])]

\* std::memcpy(output_array, out_data, length * sizeof(float))
Memcpy(dst, data, length) ==
    [i \in 1..Len(dst) |-> IF i <= length THEN data[i] ELSE dst[i]]

\* The copy done before the test for a missing output tensor.
CV_StoreOutput_Unchecked(out, present, data, length) == Memcpy(out, data, length)

\* The output array after the run: untouched when there is no output tensor
\* (lines 209-212), else the first length floats of the tensor (line 219).
CV_StoreOutput(out, present, data, length) ==
    IF ~present THEN out ELSE Memcpy(out, data, length)

\* The outcomes of ort->Run on session: a live session runs; a null or
\* dangling one is undefined behaviour (no handler here: it faults, or, for a
\* dangling pointer, runs on the freed object).
RunOutcomes(p, live) ==
    IF p \in live THEN {"proceed"}
    ELSE IF p = NULL THEN {"crash"}
    ELSE {"crash", "proceed"}

\* The engine objects one call creates, in the order it creates them: the
\* memory info (line 192), the input tensor (lines 195-199) and, when the run
\* produces one, the output tensor (line 206).
CV_CallCreates(present) ==
    <<"memory_info", "input_tensor">>
        \o (IF present THEN <<"output_tensor">> ELSE <<>>)

\* The engine objects one call releases, in the order it releases them:
\* ReleaseMemoryInfo (line 202), then ReleaseValue(input_tensor) alone (line
\* 211) or ReleaseValue on both tensors (lines 222-223).
CV_CallReleases(present) ==
    <<"memory_info", "input_tensor">>
        \o (IF present THEN <<"output_tensor">> ELSE <<>>)

\* One call PerformInference(image_data, output_array, length); image_data is
\* the frame Image(seed, ...) of the size the current dimensions ask for.
\*   present : the run produced an output tensor, with data EngineOutput
CV_PerformInferenceStep(st, seed, length, present, ub) ==
    LET np == st.n_pixels
        image == Image(seed, np * n_channels)
        fits == \A d \in CV_Written(np) : d < Len(st.input_data)
        st1 == [st EXCEPT !.input_data = CV_Preprocess(@, image, np)]
        eff == IF ub \in RunOutcomes(st.session, st.sess_created \ st.rel_sess)
               THEN ub ELSE "crash"
        st2 == [st1 EXCEPT
                  !.output_array =
                      CV_StoreOutput(@, present, EngineOutput, length)]
        call == [NoCall EXCEPT !.op = "PerformInference", !.seed = seed]
        call1 == [call EXCEPT !.written = CV_Written(np)]
    IN
    IF ~fits
    THEN \* a write past the end of input_data
         [st |-> st, crashed |-> TRUE, call |-> call]
    ELSE IF ~st.ort \/ eff = "crash"
    THEN \* ort->CreateCpuMemoryInfo through a null ort, or ort->Run on a
         \* session that does not exist
         [st |-> st1, crashed |-> TRUE, call |-> call1]
    ELSE [st |-> st2, crashed |-> FALSE,
          call |-> [call1 EXCEPT !.ret = "returned", !.present = present,
                                 !.tmp_created = CV_CallCreates(present),
                                 !.tmp_released = CV_CallReleases(present)]]

CV_PerformInference(SeedSet) ==
    /\ plugin = "CV"
    /\ ~crashed
    /\ \E seed \in SeedSet, length \in 1..MaxOut, present \in BOOLEAN,
          ub \in RunOutcomes(session, LiveSessions) :
       \E r \in {CV_PerformInferenceStep(State, seed, length, present, ub)} :
              /\ Install(r.st)
              /\ crashed' = r.crashed
              /\ last' = r.call
    /\ UNCHANGED dims_accepted

(***************************************************************************)
(* LoadModel of the YOLOX plugin.  No try / catch: a fault ends the process.*)
(***************************************************************************)
Y_DmlAction == {"DisableMemPattern", "Sequential", "DML0"}

\* lines 124-132: the flags set on session_options, and return_val.
Y_Applied(provider_name) ==
    IF Find(provider_name, S_CPU) THEN {}
    ELSE IF Find(provider_name, S_Dml) THEN Y_DmlAction
    ELSE {}

Y_ReturnVal(provider_name) ==
    IF Find(provider_name, S_CPU) THEN 1
    ELSE IF Find(provider_name, S_Dml) THEN 0
    ELSE 1

\* A float of a malloc'ed block that nothing has written yet.
Uninit == <<0, 0>>

\* lines 151-153: input_size bytes are asked for sizeof(float*) times over and
\* the first input_size bytes are cleared.  A negative input_size converts
\* to a size no allocator serves: malloc returns NULL.
Y_InputSize(np) == np * n_channels * SizeofFloat
Y_Alloc(size) ==
    IF size < 0
    THEN [mem |-> "null", data |-> <<>>]
    ELSE [mem |-> "live",
          data |-> [i \in 1..((size * SizeofFloatPtr) \div SizeofFloat) |->
                       IF (i - 1) * SizeofFloat < size THEN Zero ELSE Uninit]]

Y_UseOutcomes(p, live) ==
    IF p \in live THEN {"proceed"}
    ELSE IF p = NULL THEN {"crash"}
    ELSE {"crash", "proceed"}

Y_LoadModelStep(st, sel, w, h, model_ok, keep, ub) ==
    LET k == st.n_loads + 1
        applied == Y_Applied(sel)
        return_val == Y_ReturnVal(sel)
        \* lines 114-120
        st1 == [st EXCEPT !.n_loads = k, !.env = k, !.session_options = k]
        \* lines 135-136: CreateSession whatever the selector was
        sess1 == IF model_ok THEN k ELSE IF keep THEN st.session ELSE NULL
        st2 == [st1 EXCEPT
                  !.session = sess1,
                  !.sess_created = IF model_ok THEN @ \cup {k} ELSE @,
                  !.sess_cfg = IF model_ok
                               THEN @ \cup {<<k, f>> : f \in applied}
                               ELSE @,
                  !.rel_opts = @ \cup {k}]
        live2 == st2.sess_created \ st2.rel_sess
        eff == IF ub \in Y_UseOutcomes(sess1, live2) THEN ub ELSE "crash"
        \* lines 145-153
        size == Y_InputSize(w * h)
        blk == Y_Alloc(size)
        st3 == [st2 EXCEPT !.input_w = w, !.input_h = h, !.n_pixels = w * h,
                           !.input_size = size, !.input_data = blk.data,
                           !.input_mem = blk.mem]
        call == [NoCall EXCEPT !.op = "LoadModel", !.sel = sel,
                               !.model_ok = model_ok]
        call2 == [call EXCEPT !.cs_called = TRUE, !.applied = applied,
                              !.created = IF model_ok THEN k ELSE NULL]
    IN
    IF ~st.ort
    THEN [st |-> st, crashed |-> TRUE, call |-> call]
    ELSE IF eff = "crash"
    THEN [st |-> st2, crashed |-> TRUE, call |-> call2]
    ELSE [st |-> st3, crashed |-> FALSE,
          call |-> [call2 EXCEPT !.ret = RetInt, !.num = return_val]]

Y_LoadModel(Sels, DimSet, Oks) ==
    /\ plugin = "YOLOX"
    /\ ~crashed
    /\ n_loads < MaxLoads
    /\ \E sel \in Sels, d \in DimSet, model_ok \in Oks :
       \E keep \in (IF model_ok THEN {FALSE} ELSE BOOLEAN),
          ub \in {"crash", "proceed"} :
       \E r \in {Y_LoadModelStep(State, sel, d[1], d[2], model_ok, keep, ub)} :
              /\ Install(r.st)
              /\ crashed' = r.crashed
              /\ last' = r.call
              /\ dims_accepted' =
                    IF r.crashed THEN dims_accepted
                    ELSE model_ok /\ r.st.input_mem = "live"

(***************************************************************************)
(* RefreshMemory and FreeResources of the YOLOX plugin.                    *)
(***************************************************************************)
\* free(input_data): nothing for NULL; a second free of a block is undefined.
Y_FreeOutcomes(mem) == IF mem = "freed" THEN {"crash", "proceed"} ELSE {"proceed"}

\* guarded: RefreshMemory tests each pointer (lines 96-98); FreeResources
\* (lines 233-235) does not, and the engine's release of NULL does nothing.
Y_ReleaseStep(st, op, guarded, ub_m, ub_s, ub_e) ==
    LET eff_m == IF ub_m \in Y_FreeOutcomes(st.input_mem) THEN ub_m ELSE "proceed"
        st0 == [st EXCEPT !.input_mem = IF @ = "null" THEN @ ELSE "freed"]
        rs == st.session # NULL
        re == st.env # NULL
        eff_s == IF ub_s \in ReleaseOutcomes(st.session, st.rel_sess)
                 THEN ub_s ELSE "proceed"
        st1 == IF rs
               THEN [st0 EXCEPT
                       !.rel_sess = @ \cup {st.session},
                       !.dbl_rel = IF st.session \in st.rel_sess
                                   THEN @ \cup {<<"session", st.session>>}
                                   ELSE @]
               ELSE st0
        rel1 == IF rs THEN <<(<<"session", st.session>>)>> ELSE <<>>
        eff_e == IF ub_e \in ReleaseOutcomes(st.env, st.rel_envs)
                 THEN ub_e ELSE "proceed"
        st2 == IF re
               THEN [st1 EXCEPT
                       !.rel_envs = @ \cup {st.env},
                       !.dbl_rel = IF st.env \in st.rel_envs
                                   THEN @ \cup {<<"env", st.env>>}
                                   ELSE @]
               ELSE st1
        rel2 == IF re THEN Append(rel1, <<"env", st.env>>) ELSE rel1
        call == [NoCall EXCEPT !.op = op]
    IN
    IF eff_m = "crash"
    THEN [st |-> st, crashed |-> TRUE, call |-> call]
    ELSE IF (~guarded /\ ~st.ort) \/ (rs /\ eff_s = "crash")
    THEN \* ort->ReleaseSession through a null ort, or a second release
         [st |-> st0, crashed |-> TRUE, call |-> call]
    ELSE IF re /\ eff_e = "crash"
    THEN [st |-> st1, crashed |-> TRUE, call |-> [call EXCEPT !.released = rel1]]
    ELSE [st |-> st2, crashed |-> FALSE, call |-> [call EXCEPT !.released = rel2]]

Y_RefreshMemory ==
    /\ plugin = "YOLOX"
    /\ ~crashed
    /\ \E ub_m \in Y_FreeOutcomes(input_mem),
          ub_s \in ReleaseOutcomes(session, rel_sess),
          ub_e \in ReleaseOutcomes(env, rel_envs) :
       \E r \in {Y_ReleaseStep(State, "RefreshMemory", TRUE, ub_m, ub_s, ub_e)} :
              /\ Install(r.st)
              /\ crashed' = r.crashed
              /\ last' = r.call
    /\ UNCHANGED dims_accepted

Y_FreeResources ==
    /\ plugin = "YOLOX"
    /\ ~crashed
    /\ \E ub_m \in Y_FreeOutcomes(input_mem),
          ub_s \in ReleaseOutcomes(session, rel_sess),
          ub_e \in ReleaseOutcomes(env, rel_envs) :
       \E r \in {Y_ReleaseStep(State, "FreeResources", FALSE, ub_m, ub_s, ub_e)} :
              /\ Install(r.st)
              /\ crashed' = r.crashed
              /\ last' = r.call
    /\ UNCHANGED dims_accepted

(***************************************************************************)
(* PerformInference of the YOLOX plugin.                                   *)
(***************************************************************************)
\*   input_data[ch * n_pixels + p] = image_data[p * n_channels + ch] / 255.0f
Y_Dst(np, p, ch) == ch * np + p
Y_Src(p, ch) == p * n_channels + ch

Y_Written(np) == {Y_Dst(np, pc[1], pc[2]) : pc \in LoopPairs(np)}

Y_Preprocess(buf, image, np) ==
    [i \in 1..Len(buf) |->
        LET ws == {pc \in LoopPairs(np) : Y_Dst(np, pc[1], pc[2]) = i - 1}
        IN  IF ws = {}
            THEN buf[i]
            ELSE LET w == CHOOSE a \in ws : \A b \in ws : Later(a, b)
                 IN  Normalize(image[Y_Src(w[1], w[2]) + 1])]

\* lines 201-205 and 220.
Y_StoreOutput(out, present, data, length) ==
    IF ~present THEN out ELSE Memcpy(out, data, length)

\* The outcomes of the loop's writes through input_data: into a live block
\* they land; into a freed one they are undefined (fault, or land in the
\* freed memory); there are none when n_pixels <= 0.
Y_WriteOutcomes(mem, np) ==
    IF np <= 0 \/ mem = "live" THEN {"proceed"}
    ELSE IF mem = "null" THEN {"crash"}
    ELSE {"crash", "proceed"}

\* The engine objects one call creates: the memory info (line 185), the input
\* tensor (lines 187-190) and, when the run produces an output tensor (line
\* 195), that tensor and the type-and-shape info GetTensorTypeAndShape
\* allocates for it (line 209).
Y_CallCreates(present) ==
    <<"memory_info", "input_tensor">>
        \o (IF present THEN <<"output_tensor", "output_tensor_info">> ELSE <<>>)

\* The engine objects one call releases: ReleaseMemoryInfo (line 192), then
\* ReleaseValue(input_tensor) and ReleaseValue on the null output pointer
\* (lines 203-204), or ReleaseValue on both tensors (lines 223-224).  Nothing
\* releases output_tensor_info.
Y_CallReleases(present) ==
    <<"memory_info", "input_tensor">>
        \o (IF present THEN <<"output_tensor">> ELSE <<>>)

Y_PerformInferenceStep(st, seed, length, present, ub_w, ub) ==
    LET np == st.n_pixels
        image == Image(seed, np * n_channels)
        fits == \A d \in Y_Written(np) : d < Len(st.input_data)
        eff_w == IF ub_w \in Y_WriteOutcomes(st.input_mem, np)
                 THEN ub_w ELSE "crash"
        st1 == [st EXCEPT !.input_data = Y_Preprocess(@, image, np)]
        eff == IF ub \in RunOutcomes(st.session, st.sess_created \ st.rel_sess)
               THEN ub ELSE "crash"
        st2 == [st1 EXCEPT
                  !.output_array =
                      Y_StoreOutput(@, present, EngineOutput, length)]
        call == [NoCall EXCEPT !.op = "PerformInference", !.seed = seed]
        call1 == [call EXCEPT !.written = Y_Written(np)]
    IN
    IF ~fits \/ eff_w = "crash"
    THEN [st |-> st, crashed |-> TRUE, call |-> call]
    ELSE IF ~st.ort \/ eff = "crash"
    THEN [st |-> st1, crashed |-> TRUE, call |-> call1]
    ELSE [st |-> st2, crashed |-> FALSE,
          call |-> [call1 EXCEPT !.ret = "returned", !.present = present,
                                 !.tmp_created = Y_CallCreates(present),
                                 !.tmp_released = Y_CallReleases(present)]]

Y_PerformInference(SeedSet) ==
    /\ plugin = "YOLOX"
    /\ ~crashed
    /\ \E seed \in SeedSet, length \in 1..MaxOut, present \in BOOLEAN,
          ub_w \in Y_WriteOutcomes(input_mem, n_pixels),
          ub \in RunOutcomes(session, LiveSessions) :
       \E r \in {Y_PerformInferenceStep(State, seed, length, present, ub_w, ub)} :
              /\ Install(r.st)
              /\ crashed' = r.crashed
              /\ last' = r.call
    /\ UNCHANGED dims_accepted

(***************************************************************************)
(* Specifications.  The host calls the exported functions one at a time.   *)
(*                                                                         *)
(* Spec: the session lifecycle.  Every selector, accepted and rejected     *)
(* models, loads of one size and of a width that is no size, inference on  *)
(* one frame, release.  InitOrtAPI is called at most once.                 *)
(***************************************************************************)
LifeDims == {<<-1, 1>>, <<1, 1>>}
LifeSeeds == {0}

CVNext ==
    \/ (~ort /\ CV_InitOrtAPI({AvailableProviders}) /\ Aside)
    \/ (CV_LoadModel(Selectors, LifeDims, BOOLEAN) /\ Aside)
    \/ (CV_FreeResources /\ Aside)
    \/ (CV_PerformInference(LifeSeeds) /\ Aside)

YNext ==
    \/ (~ort /\ Y_InitOrtAPI({AvailableProviders}) /\ Aside)
    \/ (Y_LoadModel(Selectors, LifeDims, BOOLEAN) /\ Aside)
    \/ (Y_RefreshMemory /\ Aside)
    \/ (Y_FreeResources /\ Aside)
    \/ (Y_PerformInference(LifeSeeds) /\ Aside)

Next == CVNext \/ YNext

Spec == Init /\ [][Next]_vars

(***************************************************************************)
(* SpecInfer: the marshalling pipeline.  Loads of every size with the       *)
(* selectors the provider list offers and a model the engine accepts, and  *)
(* inference on different frames.                                          *)
(***************************************************************************)
InferSelectors == {S_CPU, S_Dml_EP}

InferNext ==
    \/ (~ort /\ CV_InitOrtAPI({AvailableProviders}) /\ Aside)
    \/ (CV_LoadModel(InferSelectors, DimPairs, {TRUE}) /\ Aside)
    \/ (CV_PerformInference(Seeds) /\ Aside)
    \/ (~ort /\ Y_InitOrtAPI({AvailableProviders}) /\ Aside)
    \/ (Y_LoadModel(InferSelectors, DimPairs, {TRUE}) /\ Aside)
    \/ (Y_PerformInference(Seeds) /\ Aside)

SpecInfer == Init /\ [][InferNext]_vars

(***************************************************************************)
(* SpecProviders: provider enumeration, on engines with different lists.   *)
(***************************************************************************)
ProvNext ==
    \/ (CV_InitOrtAPI(ProviderLists) /\ Aside)
    \/ (CV_GetProviderCount /\ Aside)
    \/ (CV_GetProviderName /\ Aside)
    \/ (Y_InitOrtAPI(ProviderLists) /\ Aside)
    \/ (Y_GetProviderCount /\ Aside)
    \/ (Y_GetProviderName /\ Aside)

SpecProviders == Init /\ [][ProvNext]_vars

(***************************************************************************)
(* SpecResolve: backend resolution in the CV plugin.  Loads with every     *)
(* selector, repeated, with accepted and rejected models, and release in   *)
(* between; each load is entered in the history.                           *)
(***************************************************************************)
ResolveDims == {<<1, 1>>}

ResolveNext ==
    \/ (~ort /\ CV_InitOrtAPI({AvailableProviders}) /\ Aside)
    \/ (CV_LoadModelRecorded(Selectors, ResolveDims, BOOLEAN)
           /\ UNCHANGED <<host_serial, call_pc, inflight>>)
    \/ (CV_FreeResources /\ Aside)

SpecResolve == Init /\ [][ResolveNext]_vars

(***************************************************************************)
(* SpecRace: the CV plugin called from two host threads.  The globals have *)
(* no lock, so the steps of two calls interleave unless the host makes one *)
(* call at a time.  A call enters, goes through the points where it        *)
(* touches session or input_data, and returns; its last step installs what *)
(* the call did.  While a call is at one of those points the access is in  *)
(* flight.  Two calls in flight on the same object, one of them writing,   *)
(* are a data race: undefined behaviour, which may end the process.        *)
(***************************************************************************)
\* An access is <<function, object, mode>>.
\* PerformInference, the loop: input_data[...] = ... (line 179).
PI_LoopAccess == {<<"PerformInference", "input_data", "write">>}
\* PerformInference, the run: the input tensor wraps input_data.data() (lines
\* 195-199) and ort->Run reads it through session (lines 205-206).
PI_RunAccess ==
    {<<"PerformInference", "input_data", "read">>,
     <<"PerformInference", "session", "read">>}
\* A run the engine carries on with after PerformInference has returned.
PI_AfterReturn_Async == PI_RunAccess
\* What PerformInference still has in flight once it has returned: nothing,
\* ort->Run blocks and the tensors are released before the return (lines
\* 206-223).
PI_AfterReturn == {}
\* LoadModel: ort->CreateSession(..., &session) replaces session (line 134).
LM_SessionAccess == {<<"LoadModel", "session", "write">>}
\* LoadModel: input_data.resize(...) (line 152).
LM_ResizeAccess == {<<"LoadModel", "input_data", "write">>}
\* FreeResources: ort->ReleaseSession(session) (line 78).
FR_ReleaseAccess == {<<"FreeResources", "session", "write">>}

\* PerformInference using an object that LoadModel or FreeResources is
\* writing.
Conflict(a, b) ==
    /\ a[1] = "PerformInference"
    /\ b[1] \in {"LoadModel", "FreeResources"}
    /\ a[2] = b[2]
    /\ b[3] = "write"

Race ==
    \E t, u \in Threads :
        /\ t # u
        /\ \E a \in inflight[t], b \in inflight[u] : Conflict(a, b)

\* Thread t may make a call: it is not in one, and a host that makes one call
\* at a time has no other call in flight.
MayCall(t) ==
    /\ call_pc[t] = "idle"
    /\ host_serial => \A u \in Threads : call_pc[u] = "idle"

\* Thread t moves to point p of its call, with the accesses acc in flight.
Enter(t, p, acc) ==
    /\ call_pc' = [call_pc EXCEPT ![t] = p]
    /\ inflight' = [inflight EXCEPT ![t] = acc]

RaceSelectors == {S_CPU}

R_CallPerformInference(t) ==
    /\ plugin = "CV" /\ ~crashed /\ ort
    /\ MayCall(t)
    /\ Enter(t, "pi_loop", PI_LoopAccess)
    /\ UNCHANGED <<prog_vars, crashed, last, cfg_hist, host_serial>>

R_PerformInferenceRun(t) ==
    /\ ~crashed
    /\ call_pc[t] = "pi_loop"
    /\ Enter(t, "pi_run", PI_RunAccess)
    /\ UNCHANGED <<prog_vars, crashed, last, cfg_hist, host_serial>>

R_PerformInferenceReturn(t) ==
    /\ call_pc[t] = "pi_run"
    /\ CV_PerformInference(LifeSeeds)
    /\ Enter(t, "idle", PI_AfterReturn)
    /\ UNCHANGED <<cfg_hist, host_serial>>

R_CallLoadModel(t) ==
    /\ plugin = "CV" /\ ~crashed /\ ort
    /\ n_loads < MaxLoads
    /\ MayCall(t)
    /\ Enter(t, "lm_session", LM_SessionAccess)
    /\ UNCHANGED <<prog_vars, crashed, last, cfg_hist, host_serial>>

R_LoadModelResize(t) ==
    /\ ~crashed
    /\ call_pc[t] = "lm_session"
    /\ Enter(t, "lm_resize", LM_ResizeAccess)
    /\ UNCHANGED <<prog_vars, crashed, last, cfg_hist, host_serial>>

R_LoadModelReturn(t) ==
    /\ call_pc[t] = "lm_resize"
    /\ CV_LoadModel(RaceSelectors, ResolveDims, {TRUE})
    /\ Enter(t, "idle", {})
    /\ UNCHANGED <<cfg_hist, host_serial>>

R_CallFreeResources(t) ==
    /\ plugin = "CV" /\ ~crashed /\ ort
    /\ MayCall(t)
    /\ Enter(t, "fr_release", FR_ReleaseAccess)
    /\ UNCHANGED <<prog_vars, crashed, last, cfg_hist, host_serial>>

R_FreeResourcesReturn(t) ==
    /\ call_pc[t] = "fr_release"
    /\ CV_FreeResources
    /\ Enter(t, "idle", {})
    /\ UNCHANGED <<cfg_hist, host_serial>>

\* The data race takes the process down.
R_Fault ==
    /\ ~crashed
    /\ Race
    /\ crashed' = TRUE
    /\ UNCHANGED <<prog_vars, last, cfg_hist, host_serial, call_pc, inflight>>

RaceNext ==
    \/ (~ort /\ CV_InitOrtAPI({AvailableProviders}) /\ Aside)
    \/ \E t \in Threads : R_CallPerformInference(t)
    \/ \E t \in Threads : R_PerformInferenceRun(t)
    \/ \E t \in Threads : R_PerformInferenceReturn(t)
    \/ \E t \in Threads : R_CallLoadModel(t)
    \/ \E t \in Threads : R_LoadModelResize(t)
    \/ \E t \in Threads : R_LoadModelReturn(t)
    \/ \E t \in Threads : R_CallFreeResources(t)
    \/ \E t \in Threads : R_FreeResourcesReturn(t)
    \/ R_Fault

\* The host may or may not make its calls one at a time.
RaceInit == StartUp /\ host_serial \in BOOLEAN

SpecRace == RaceInit /\ [][RaceNext]_vars

(***************************************************************************)
(*                              Properties                                 *)
(***************************************************************************)
AllAccelerated == {"DisableMemPattern", "Sequential", "DML0"}
Recognized(sel) == Find(sel, S_CPU) \/ Find(sel, S_Dml)

\* C1: in the CV plugin at most one ExecutionEnvironment and at most one
\* Session are live (created and not yet released) at any time, whatever
\* sequence of LoadModel, PerformInference and FreeResources calls was made.
C1_AtMostOneLive ==
    plugin = "CV" =>
        /\ Cardinality(LiveEnvs) <= 1
        /\ Cardinality(LiveSessions) <= 1

\* C2: in the CV plugin no session and no environment is ever released more
\* than once (a FreeResources with nothing loaded releases nothing), and
\* after each FreeResources the session and environment handles are unset.
C2_FreeResourcesOnce ==
    plugin = "CV" =>
        /\ dbl_rel = {}
        /\ last.op = "FreeResources" =>
              /\ ~crashed
              /\ session = NULL
              /\ env = NULL

\* C3: in either plugin a LoadModel (after InitOrtAPI) whose selector
\* contains neither "CPU" nor "Dml" reports the unsupported backend (the CV
\* message, a non-zero YOLOX status), does not call session creation and
\* leaves no session loaded, whether or not one was loaded before.
C3_UnsupportedBackend ==
    (last.op = "LoadModel" /\ ort /\ ~crashed /\ ~Recognized(last.sel)) =>
        /\ IF plugin = "CV"
           THEN last.ret = MsgUnknownProvider
           ELSE last.ret = RetInt /\ last.num # 0
        /\ ~last.cs_called
        /\ session \notin LiveSessions

\* C4: in the CV plugin a LoadModel whose session creation the engine
\* rejects returns a failure message carrying the engine's error with the
\* session handle unset, and the success confirmation is returned only when
\* this call created a session that is live.
C4_LoadFailureReported ==
    (plugin = "CV" /\ last.op = "LoadModel") =>
        /\ (last.cs_called /\ ~last.model_ok) =>
              /\ ~crashed
              /\ last.ret = MsgException
              /\ session = NULL
        /\ last.ret = MsgSuccess =>
              /\ last.created # NULL
              /\ session = last.created
              /\ session \in LiveSessions

\* C5: after the preprocessing loop of a PerformInference on dimensions w, h
\* that LoadModel accepted, PreprocessBuffer[c*(w*h) + y*w + x] is
\* image[(y*w + x)*3 + c] / 255 for every x < w, y < h, c < 3, and the
\* offsets the call wrote are exactly 0 .. w*h*3 - 1.
C5_Layout ==
    (dims_accepted /\ last.op = "PerformInference" /\ last.ret = "returned") =>
        LET w == input_w
            h == input_h
            image == Image(last.seed, w * h * 3)
        IN  /\ \A x \in 0..(w - 1), y \in 0..(h - 1), c \in 0..2 :
                  input_data[c * (w * h) + y * w + x + 1]
                      = <<image[(y * w + x) * 3 + c + 1], 255>>
            /\ last.written = 0..(w * h * 3 - 1)

\* C5 witness: the CV plugin after a second load, of 2 x 2, has processed
\* frame 1.
C5_Witness ==
    /\ plugin = "CV"
    /\ dims_accepted
    /\ n_loads = 2
    /\ input_w = 2
    /\ input_h = 2
    /\ last.op = "PerformInference"
    /\ last.ret = "returned"
    /\ last.seed = 1

\* C6: in the CV plugin, in every reachable state, the PreprocessBuffer
\* length is input_w * input_h * 3.
C6_BufferLength ==
    (plugin = "CV" /\ ~crashed) =>
        Len(input_data) = input_w * input_h * 3

\* C7 as claimed: in the CV plugin's LoadModel the selector "CPU" never has
\* the accelerated configuration applied, and every selector that contains
\* "Dml" has all three settings applied to the options the session is
\* created from.
C7_Original ==
    (plugin = "CV" /\ last.op = "LoadModel") =>
        /\ last.sel = S_CPU => last.applied = {}
        /\ (Find(last.sel, S_Dml) /\ last.created # NULL) =>
              /\ last.applied = AllAccelerated
              /\ CfgOf(last.created) = AllAccelerated

\* C7 as amended: the selector "CPU" never has the accelerated configuration
\* applied, and every selector that contains "Dml" and does not contain
\* "CPU" has all three settings applied to the options the session is
\* created from.
C7_Amended ==
    (plugin = "CV" /\ last.op = "LoadModel") =>
        /\ last.sel = S_CPU =>
              /\ last.applied = {}
              /\ last.created # NULL => CfgOf(last.created) = {}
        /\ (Find(last.sel, S_Dml) /\ ~Find(last.sel, S_CPU) /\ last.cs_called) =>
              /\ last.applied = AllAccelerated
              /\ last.created # NULL => CfgOf(last.created) = AllAccelerated

\* C7 witness: a session created for a DirectML selector, with all three set.
C7_Witness ==
    /\ plugin = "CV"
    /\ last.op = "LoadModel"
    /\ last.sel = S_Dml_EP
    /\ last.created # NULL
    /\ CfgOf(last.created) = AllAccelerated

\* C8: a PerformInference whose run yields no output tensor leaves the
\* caller's output array as it was before the call.
C8_NoWriteWhenAbsent ==
    [][(last'.op = "PerformInference" /\ last'.ret = "returned"
           /\ ~last'.present)
          => output_array' = output_array]_vars

\* C8 witness: a run without output tensor returned, and the output array
\* still holds what an earlier run had put there.
C8_Witness ==
    /\ last.op = "PerformInference"
    /\ last.ret = "returned"
    /\ ~last.present
    /\ output_array = EngineOutput

\* C9: in either plugin GetProviderName returns null, reading no element of
\* the provider list, for every index outside [0, GetProviderCount()), and
\* the cached name for every index inside.
C9_ProviderNameGuarded ==
    last.op = "GetProviderName" =>
        LET count == IF plugin = "CV" THEN Len(provider_names) ELSE provider_count
        IN  IF last.index >= 0 /\ last.index < count
            THEN /\ last.ret = RetName
                 /\ last.name = provider_names[last.index + 1]
            ELSE /\ ~crashed
                 /\ last.ret = RetNull
                 /\ ~last.oob

\* C10: the YOLOX LoadModel returns 0 for a recognized selector and a model
\* the engine accepts (the input block allocated), and a non-zero status
\* only when the load failed.
C10_StatusZeroOnSuccess ==
    (plugin = "YOLOX" /\ last.op = "LoadModel" /\ last.ret = RetInt) =>
        /\ (Recognized(last.sel) /\ last.model_ok /\ input_mem = "live") =>
              last.num = 0
        /\ last.num # 0 =>
              (~last.model_ok \/ ~Recognized(last.sel) \/ input_mem # "live")

(***************************************************************************)
(* C11: every PerformInference call that returns, with or without an       *)
(* output tensor, has released each engine object it created exactly once, *)
(* so that no call-scoped engine object is live after it, and it leaves    *)
(* the session and the environment as they were.                           *)
(***************************************************************************)
\* How many times kind k occurs in the sequence s.
Occurrences(s, k) == Cardinality({i \in 1..Len(s) : s[i] = k})

\* The call-scoped engine objects still live when the last call returned.
LiveCallObjects ==
    {i \in 1..Len(last.tmp_created) :
        Occurrences(last.tmp_released, last.tmp_created[i]) = 0}

C11_CallObjectsReleased ==
    [][(last'.op = "PerformInference" /\ last'.ret = "returned")
          => /\ \A i \in 1..Len(last'.tmp_created) :
                  Occurrences(last'.tmp_released, last'.tmp_created[i]) = 1
             /\ LiveCallObjects' = {}
             /\ session' = session /\ env' = env
             /\ LiveSessions' = LiveSessions /\ LiveEnvs' = LiveEnvs]_vars

(***************************************************************************)
(* C12: in the CV plugin no environment is released while a session        *)
(* created from it is unreleased; each FreeResources releases the session  *)
(* before the environment, and the environment it releases is the one the  *)
(* released session was created from.                                      *)
(***************************************************************************)
\* The environment session s was created from: the load that created session
\* s passed the environment it had just created (lines 95 and 134).
OwnerOf(s) == s

C12_SessionBeforeOwner ==
    plugin = "CV" =>
        /\ \A e \in rel_envs :
              \A s \in LiveSessions : OwnerOf(s) # e
        /\ last.op = "FreeResources" =>
              \A i, j \in 1..Len(last.released) :
                  (last.released[i][1] = "session" /\ last.released[j][1] = "env")
                      => /\ i < j
                         /\ last.released[j][2] = OwnerOf(last.released[i][2])

(***************************************************************************)
(* C13: a CV LoadModel that fails because no backend matches the selector  *)
(* leaves the live native resources as they were: no environment and no    *)
(* session-options object it created stays unreleased, and the environment *)
(* handle held for a loaded session is not replaced.                       *)
(***************************************************************************)
C13_UnsupportedKeepsResources ==
    [][(plugin = "CV" /\ last'.op = "LoadModel"
                      /\ last'.ret = MsgUnknownProvider)
          => /\ LiveEnvs' = LiveEnvs
             /\ LiveOpts' = LiveOpts
             /\ LiveSessions' = LiveSessions
             /\ (session \in LiveSessions => env' = env)]_vars

C15_SerializedNoRace == host_serial => ~Race

\* A model is loaded and the two calls overlap.
C15_Witness == ~host_serial /\ ~crashed /\ session \in LiveSessions /\ Race

====
